---- MODULE Spec2Model ----
(***************************************************************************)
(* The viseme capture page of kapi2800/Lipsync (src/unnamed/part_000):     *)
(* the module-level capture state, the HTML audio element it reads, the    *)
(* requestAnimationFrame loop and the DOM event handlers.                  *)
(*                                                                         *)
(* Times are integers counted in ticks of 1/TicksPerSecond seconds; the    *)
(* start/end of a mouth cue and metadata.duration are what round2 returns, *)
(* counted in hundredths of a second.  The DOM display (mouth image,       *)
(* chart highlight, status toast) holds no state the handlers read back    *)
(* and is left out.                                                        *)
(***************************************************************************)
EXTENDS Integers, Sequences, FiniteSets, TLC

\* ------------------------------------------------------------------ bounds

\* Length of every audio file, in ticks.
MaxTime == 4
\* Most mouth cues the sampling loop may record in one run (an export adds
\* the closing cue).
MaxCues == 2
\* Most animation-frame callbacks pending at once.
MaxFrames == 2
\* Most 'loadedmetadata' once-listeners registered and not yet run.
MaxListeners == 2

\* --------------------------------------------------------------- constants

\* The factor of round2: Math.round(t * 100) / 100.
Hundred == 100
\* One tick is 5 ms, so that odd tick counts are the ties of round2.
TicksPerSecond == 2 * Hundred

\* The files the user can pick.
Files == {"a.mp3", "b.wav"}
\* The viseme letters of the chart.
Visemes == {"A", "B", "C", "D", "E", "F", "G", "H", "X"}
\* What lipsyncManager.viseme can read after processAudio(): a letter, or
\* nothing (the empty string stands for '', null and undefined alike).
AnalyzerOut == {"A", ""}

NoDoc == [none |-> TRUE]

VARIABLES
    isConnected,       \* let isConnected
    animationFrameId,  \* let animationFrameId: FALSE is null, TRUE a handle
    mouthCues,         \* let mouthCues
    currentViseme,     \* let currentViseme
    segmentStart,      \* let segmentStart (ticks)
    uploadedFileName,  \* let uploadedFileName
    audioDuration,     \* let audioDuration (ticks)
    audioPlayer,       \* the <audio> element: src, readyState, paused, currentTime
    viseme,            \* lipsyncManager.viseme
    framePending,      \* the callback animationFrameId names is still pending
    staleFrames,       \* pending callbacks of older handles
    metaListeners,     \* 'loadedmetadata' once-listeners registered
    playBtn,           \* playBtn.disabled
    pauseBtn,          \* pauseBtn.disabled
    stopBtn,           \* stopBtn.disabled
    download,          \* the document the step just taken downloaded, or NoDoc
    exportInfo,        \* history: the circumstances of that download
    finalizeCalls,     \* history: finalizeAndDownloadJSON calls since resetCapture
    connectResult,     \* history: how connectAudio went for the selected file
    loopCancelled,     \* history: Pause, Stop or 'ended' has run, and no Play since
    cueFiles,          \* history: per cue of mouthCues, the file selected when recorded
    sampled            \* history: run-length encoding of the labels sampled this run

vars == <<isConnected, animationFrameId, mouthCues, currentViseme, segmentStart,
          uploadedFileName, audioDuration, audioPlayer, viseme, framePending,
          staleFrames, metaListeners, playBtn, pauseBtn, stopBtn, download,
          exportInfo, finalizeCalls, connectResult,
          loopCancelled, cueFiles, sampled>>

\* ----------------------------------------------------------------- helpers

\* round2 with Math.floor in place of Math.round.
Round2Floor(t) == (t * Hundred) \div TicksPerSecond

\* const round2 = (t) => Math.round(t * 100) / 100, on a time in ticks:
\* Math.round is floor(x + 1/2); the result is counted in hundredths.
Round2(t) == (2 * t * Hundred + TicksPerSecond) \div (2 * TicksPerSecond)

\* A read of lipsyncManager.viseme without the `|| 'X'` default.
OrXMissing(v) == v

\* lipsyncManager.viseme || 'X'
OrX(v) == IF v = "" THEN "X" ELSE v

Cue(s, e, v) == [start |-> s, end |-> e, value |-> v]

\* The capture state as one value.
Capture == [mouthCues |-> mouthCues, currentViseme |-> currentViseme,
            segmentStart |-> segmentStart, audioDuration |-> audioDuration]

\* resetCapture() with `segmentStart = audioDuration` in place of
\* `segmentStart = 0`.
ResetCaptureStartsAtDuration(c) ==
    [c EXCEPT !.mouthCues = <<>>, !.currentViseme = "X",
              !.segmentStart = c.audioDuration, !.audioDuration = 0]

\* function resetCapture(), lines 66-71, as a function of the capture state.
ResetCaptureFrom(c) ==
    [c EXCEPT !.mouthCues = <<>>, !.currentViseme = "X",
              !.segmentStart = 0, !.audioDuration = 0]

\* resetCapture() without `segmentStart = 0`.
ResetCaptureKeepsStart ==
    [mouthCues |-> <<>>, currentViseme |-> "X",
     segmentStart |-> segmentStart, audioDuration |-> 0]

\* resetCapture() called on the program's capture state.
ResetCapture == ResetCaptureFrom(Capture)

\* audioPlayer.duration: NaN until the metadata is loaded (0 stands for NaN:
\* the code only reads it as `duration || ...`, where both are falsy).
Duration(ap) == IF ap.ready THEN MaxTime ELSE 0

\* The element has ended playback: the position is the end of the resource.
EndedPlayback(ap) == ap.ready /\ ap.currentTime = Duration(ap)

\* audioPlayer.play(): a play() on an element that has ended playback seeks to
\* the start first, and currentTime reads 0 from then on.
PlayAudio(ap) ==
    [ap EXCEPT !.paused = FALSE,
               !.currentTime = IF EndedPlayback(ap) THEN 0 ELSE @]

\* analyzeAudio with `segmentStart = now` on every sample, the label changed
\* or not.
SampleRestartsSegment(c, now, raw) ==
    LET v == OrX(raw)
        c1 == IF Len(c.mouthCues) = 0 /\ now = 0
              THEN [c EXCEPT !.currentViseme = v, !.segmentStart = 0]
              ELSE c
    IN  IF v # c1.currentViseme
        THEN [c1 EXCEPT
                !.mouthCues = Append(@, Cue(Round2(c1.segmentStart), Round2(now),
                                            c1.currentViseme)),
                !.currentViseme = v,
                !.segmentStart = now]
        ELSE [c1 EXCEPT !.segmentStart = now]

\* analyzeAudio without the first-frame initialisation of lines 117-120.
SampleWithoutInit(c, now, raw) ==
    LET v == OrX(raw)
    IN  IF v # c.currentViseme
        THEN [c EXCEPT
                !.mouthCues = Append(@, Cue(Round2(c.segmentStart), Round2(now),
                                            c.currentViseme)),
                !.currentViseme = v,
                !.segmentStart = now]
        ELSE c

\* analyzeAudio without `segmentStart = now` when a segment is closed.
SampleKeepsStart(c, now, raw) ==
    LET v == OrX(raw)
        c1 == IF Len(c.mouthCues) = 0 /\ now = 0
              THEN [c EXCEPT !.currentViseme = v, !.segmentStart = 0]
              ELSE c
    IN  IF v # c1.currentViseme
        THEN [c1 EXCEPT
                !.mouthCues = Append(@, Cue(Round2(c1.segmentStart), Round2(now),
                                            c1.currentViseme)),
                !.currentViseme = v]
        ELSE c1

\* analyzeAudio, lines 113-134: the sample (now, raw label) applied to the
\* capture state c.
Sample(c, now, raw) ==
    LET v == OrX(raw)
        c1 == IF Len(c.mouthCues) = 0 /\ now = 0
              THEN [c EXCEPT !.currentViseme = v, !.segmentStart = 0]
              ELSE c
    IN  IF v # c1.currentViseme
        THEN [c1 EXCEPT
                !.mouthCues = Append(@, Cue(Round2(c1.segmentStart), Round2(now),
                                            c1.currentViseme)),
                !.currentViseme = v,
                !.segmentStart = now]
        ELSE c1

\* finalizeAndDownloadJSON, line 149.
EndTime(ap) == IF Duration(ap) # 0 THEN Duration(ap) ELSE ap.currentTime

\* finalizeAndDownloadJSON, lines 151-158: the capture state after the close.
Finalize(c, ap) ==
    IF c.segmentStart <= EndTime(ap)
    THEN [c EXCEPT !.mouthCues = Append(@, Cue(Round2(c.segmentStart),
                                               Round2(EndTime(ap)),
                                               c.currentViseme))]
    ELSE c

\* The document with metadata.duration taken from the audioDuration variable
\* instead of endTime.
DocumentAudioDuration(c, ap) ==
    [metadata |-> [soundFile |-> IF uploadedFileName = "" THEN "unknown"
                                 ELSE uploadedFileName,
                   duration |-> Round2(c.audioDuration)],
     mouthCues |-> c.mouthCues]

\* finalizeAndDownloadJSON, lines 160-167: the document built from the
\* capture state c (already closed).
Document(c, ap) ==
    [metadata |-> [soundFile |-> IF uploadedFileName = "" THEN "unknown"
                                 ELSE uploadedFileName,
                   duration |-> Round2(EndTime(ap))],
     mouthCues |-> c.mouthCues]

\* stopBtn handler, lines 226-240: the close the Stop handler does itself,
\* with the element ap as the handler has left it.
StopClose(c, ap) ==
    IF Len(c.mouthCues) = 0
    THEN [c EXCEPT !.mouthCues = Append(@, Cue(0, 0, "X"))]
    ELSE IF c.segmentStart < ap.currentTime
         THEN [c EXCEPT !.mouthCues = Append(@, Cue(Round2(c.segmentStart),
                                                    Round2(ap.currentTime),
                                                    c.currentViseme))]
         ELSE c

\* The record of a run with more label changes than any bounded run's cues
\* can show.
Overflow == <<[value |-> "?", at |-> 0]>>

\* The run-length encoding of the sampled labels, kept beside the program:
\* a new entry [value, at] whenever the label differs from the last one.
Encode(rle, now, raw) ==
    IF rle = Overflow \/ (Len(rle) > 0 /\ rle[Len(rle)].value = OrX(raw))
    THEN rle
    ELSE IF Len(rle) >= MaxCues + 1
         THEN Overflow
         ELSE Append(rle, [value |-> OrX(raw), at |-> now])

\* The files of the cues: a cue kept from mouthCues keeps its file, a cue the
\* step appends is recorded under the file selected when the step began.
CueFilesOf(cues) ==
    [i \in 1..Len(cues) |->
        IF i <= Len(cueFiles) THEN cueFiles[i] ELSE uploadedFileName]

SetCapture(c) ==
    /\ mouthCues' = c.mouthCues
    /\ cueFiles' = CueFilesOf(c.mouthCues)
    /\ currentViseme' = c.currentViseme
    /\ segmentStart' = c.segmentStart
    /\ audioDuration' = c.audioDuration

\* The circumstances of an export: which handler, the playback time it began
\* at, and the capture state it found.
Info(trigger, c, ap, n) ==
    [trigger |-> trigger, at |-> ap.currentTime, prior |-> c.mouthCues,
     openStart |-> c.segmentStart, openValue |-> c.currentViseme,
     nth |-> n, sampled |-> sampled]

\* The button states of index.html before any file is loaded: the handlers
\* treat "disabled" as the state before a successful load.
InitialControls == [playBtn |-> TRUE, pauseBtn |-> TRUE, stopBtn |-> TRUE]

\* ------------------------------------------------------------------- Init

Init ==
    /\ isConnected = FALSE
    /\ animationFrameId = FALSE
    /\ mouthCues = <<>>
    /\ currentViseme = "X"
    /\ segmentStart = 0
    /\ uploadedFileName = ""
    /\ audioDuration = 0
    /\ audioPlayer = [src |-> "", ready |-> FALSE, paused |-> TRUE,
                      currentTime |-> 0, endedTask |-> FALSE]
    /\ viseme = ""
    /\ framePending = FALSE
    /\ staleFrames = 0
    /\ metaListeners = 0
    /\ playBtn = InitialControls.playBtn
    /\ pauseBtn = InitialControls.pauseBtn
    /\ stopBtn = InitialControls.stopBtn
    /\ download = NoDoc
    /\ exportInfo = NoDoc
    /\ finalizeCalls = 0
    /\ connectResult = "none"
    /\ loopCancelled = FALSE
    /\ cueFiles = <<>>
    /\ sampled = <<>>

\* ---------------------------------------------------------------- actions

\* function analyzeAudio(), lines 109-145, run on capture state c and element
\* ap, with raw the label processAudio() leaves in lipsyncManager.viseme;
\* latest and stale are the callbacks still pending when it runs, rle the
\* labels sampled so far.  A paused element returns at once; otherwise the
\* sample is taken and the next frame requested.  MaxCues and MaxFrames cap
\* the cues recorded and the callbacks pending.
AnalyzeAudio(c, ap, raw, latest, stale, rle) ==
    IF ap.paused
    THEN /\ SetCapture(c)
         /\ viseme' = viseme
         /\ animationFrameId' = animationFrameId
         /\ framePending' = latest
         /\ staleFrames' = stale
         /\ sampled' = rle
    ELSE /\ Len(Sample(c, ap.currentTime, raw).mouthCues) <= MaxCues
         /\ stale + (IF latest THEN 1 ELSE 0) < MaxFrames
         /\ SetCapture(Sample(c, ap.currentTime, raw))
         /\ viseme' = raw
         /\ animationFrameId' = TRUE
         /\ framePending' = TRUE
         /\ staleFrames' = stale + (IF latest THEN 1 ELSE 0)
         /\ sampled' = Encode(rle, ap.currentTime, raw)

NoExport ==
    /\ download' = NoDoc
    /\ exportInfo' = NoDoc

\* finalizeAndDownloadJSON(), lines 148-185, on the capture state c and the
\* element ap the handler has made of c0 and ap0, the ones it began with.
Export(trigger, c0, ap0, c, ap) ==
    /\ download' = Document(Finalize(c, ap), ap)
    /\ exportInfo' = Info(trigger, c0, ap0, finalizeCalls + 1)
    /\ sampled' = <<>>

\* The Stop handler without its resetCapture() call.
StopPrepareForgotten(c, n) ==
    /\ SetCapture(c)
    /\ finalizeCalls' = n

\* stopBtn handler, lines 259-260: "Prepare for next run", on the capture
\* state c the export has left, finalized n times.
StopPrepare(c, n) ==
    /\ SetCapture(ResetCapture)
    /\ finalizeCalls' = 0

\* 'ended' handler, lines 284-285: "Prepare for next playback".
EndedPrepare(c, n) ==
    /\ SetCapture(ResetCapture)
    /\ finalizeCalls' = 0

\* The change handler without its resetCapture() call.
FileChangeKeepsCapture(f) ==
    /\ metaListeners < MaxListeners
    /\ uploadedFileName' = f
    /\ framePending' = FALSE
    /\ SetCapture(Capture)
    /\ finalizeCalls' = 0
    /\ audioPlayer' = [src |-> f, ready |-> FALSE, paused |-> TRUE,
                       currentTime |-> 0, endedTask |-> FALSE]
    /\ metaListeners' = metaListeners + 1
    /\ connectResult' = "none"
    /\ sampled' = <<>>
    /\ NoExport
    /\ UNCHANGED <<isConnected, animationFrameId, viseme, staleFrames,
                   playBtn, pauseBtn, stopBtn, loopCancelled>>

\* audioFile 'change' with a file chosen, lines 74-106.  Setting src runs the
\* element's load algorithm: it pauses, returns to position 0, forgets the
\* duration and drops the element's queued event tasks.  MaxListeners caps
\* the listeners registered before a 'loadedmetadata' runs them.
FileChange(f) ==
    /\ metaListeners < MaxListeners
    /\ uploadedFileName' = f
    /\ framePending' = FALSE
    /\ SetCapture(ResetCapture)
    /\ finalizeCalls' = 0
    /\ audioPlayer' = [src |-> f, ready |-> FALSE, paused |-> TRUE,
                       currentTime |-> 0, endedTask |-> FALSE]
    /\ metaListeners' = metaListeners + 1
    /\ connectResult' = "none"
    /\ sampled' = <<>>
    /\ NoExport
    /\ UNCHANGED <<isConnected, animationFrameId, viseme, staleFrames,
                   playBtn, pauseBtn, stopBtn, loopCancelled>>

\* audioFile 'change' with the picker cancelled: if (!file) return.
FileChangeNone ==
    /\ NoExport
    /\ UNCHANGED <<isConnected, animationFrameId, mouthCues, cueFiles, currentViseme,
                   segmentStart, uploadedFileName, audioDuration, audioPlayer,
                   viseme, framePending, staleFrames, metaListeners, playBtn,
                   pauseBtn, stopBtn, finalizeCalls, connectResult,
                   loopCancelled, sampled>>

\* 'loadedmetadata', lines 88-105: every once-listener registered runs;
\* connects[i] tells whether the i-th listener's connectAudio returns (TRUE)
\* or throws.  The listeners all make the same assignments, so that one
\* success decides isConnected and the buttons.
LoadedMetadata ==
    /\ audioPlayer.src # ""
    /\ ~audioPlayer.ready
    /\ \E connects \in [1..metaListeners -> BOOLEAN] :
       LET ap1 == [audioPlayer EXCEPT !.ready = TRUE]
           anyOk == \E i \in DOMAIN connects : connects[i]
       IN  /\ audioPlayer' = ap1
           /\ audioDuration' = Duration(ap1)
           /\ isConnected' = (isConnected \/ anyOk)
           /\ playBtn' = IF anyOk THEN FALSE ELSE playBtn
           /\ pauseBtn' = IF anyOk THEN TRUE ELSE pauseBtn
           /\ stopBtn' = IF anyOk THEN TRUE ELSE stopBtn
           /\ connectResult' = IF anyOk THEN "ok" ELSE "threw"
    /\ metaListeners' = 0
    /\ NoExport
    /\ UNCHANGED <<animationFrameId, mouthCues, cueFiles, currentViseme, segmentStart,
                   uploadedFileName, viseme, framePending, staleFrames,
                   finalizeCalls, loopCancelled, sampled>>

\* The Play handler with the capture reset at every click, whatever the
\* playback time.
PlayClickAlwaysResets(raw0, raw1) ==
    /\ ~playBtn
    /\ IF ~isConnected
       THEN /\ NoExport
            /\ UNCHANGED <<isConnected, animationFrameId, mouthCues, cueFiles,
                           currentViseme, segmentStart, uploadedFileName,
                           audioDuration, audioPlayer, viseme, framePending,
                           staleFrames, metaListeners, playBtn, pauseBtn,
                           stopBtn, finalizeCalls, connectResult,
                           loopCancelled, sampled>>
       ELSE LET atZero == TRUE
                c1 == IF atZero
                      THEN [ResetCapture EXCEPT !.currentViseme = OrX(raw0),
                                                !.segmentStart = 0]
                      ELSE Capture
                ap1 == PlayAudio(audioPlayer)
                rle1 == IF ap1.currentTime = 0 THEN <<>> ELSE sampled
            IN  /\ audioPlayer' = ap1
                /\ playBtn' = TRUE
                /\ pauseBtn' = FALSE
                /\ stopBtn' = FALSE
                /\ finalizeCalls' = IF atZero THEN 0 ELSE finalizeCalls
                /\ loopCancelled' = FALSE
                /\ AnalyzeAudio(c1, ap1, raw1, framePending, staleFrames, rle1)
                /\ NoExport
                /\ UNCHANGED <<isConnected, uploadedFileName, metaListeners,
                               connectResult>>

\* playBtn 'click', lines 188-206: raw0 is the label read when the capture
\* is reset, raw1 the one read by the analyzeAudio() call that follows.
PlayClick(raw0, raw1) ==
    /\ ~playBtn
    /\ IF ~isConnected
       THEN /\ NoExport
            /\ UNCHANGED <<isConnected, animationFrameId, mouthCues, cueFiles,
                           currentViseme, segmentStart, uploadedFileName,
                           audioDuration, audioPlayer, viseme, framePending,
                           staleFrames, metaListeners, playBtn, pauseBtn,
                           stopBtn, finalizeCalls, connectResult,
                           loopCancelled, sampled>>
       ELSE LET atZero == audioPlayer.currentTime = 0
                c1 == IF atZero
                      THEN [ResetCapture EXCEPT !.currentViseme = OrX(raw0),
                                                !.segmentStart = 0]
                      ELSE Capture
                ap1 == PlayAudio(audioPlayer)
                rle1 == IF ap1.currentTime = 0 THEN <<>> ELSE sampled
            IN  /\ audioPlayer' = ap1
                /\ playBtn' = TRUE
                /\ pauseBtn' = FALSE
                /\ stopBtn' = FALSE
                /\ finalizeCalls' = IF atZero THEN 0 ELSE finalizeCalls
                /\ loopCancelled' = FALSE
                /\ AnalyzeAudio(c1, ap1, raw1, framePending, staleFrames, rle1)
                /\ NoExport
                /\ UNCHANGED <<isConnected, uploadedFileName, metaListeners,
                               connectResult>>

\* pauseBtn 'click', lines 209-215.
PauseClick ==
    /\ ~pauseBtn
    /\ audioPlayer' = [audioPlayer EXCEPT !.paused = TRUE]
    /\ playBtn' = FALSE
    /\ pauseBtn' = TRUE
    /\ framePending' = FALSE
    /\ loopCancelled' = TRUE
    /\ NoExport
    /\ UNCHANGED <<isConnected, animationFrameId, mouthCues, cueFiles, currentViseme,
                   segmentStart, uploadedFileName, audioDuration, viseme,
                   staleFrames, metaListeners, stopBtn, finalizeCalls,
                   connectResult, sampled>>

\* stopBtn 'click', lines 218-262.
StopClick ==
    /\ ~stopBtn
    /\ LET ap1 == [audioPlayer EXCEPT !.paused = TRUE, !.currentTime = 0]
       IN  /\ audioPlayer' = ap1
           /\ Export("stop", Capture, audioPlayer, StopClose(Capture, ap1), ap1)
           /\ StopPrepare(Finalize(StopClose(Capture, ap1), ap1),
                          finalizeCalls + 1)
    /\ framePending' = FALSE
    /\ loopCancelled' = TRUE
    /\ playBtn' = FALSE
    /\ pauseBtn' = TRUE
    /\ stopBtn' = TRUE
    /\ UNCHANGED <<isConnected, animationFrameId, uploadedFileName, viseme,
                   staleFrames, metaListeners, connectResult>>

\* The element's 'ended' task followed by the 'ended' handler, lines 265-287.
\* The task pauses an element that has ended playback and fires the event.
EndedEvent ==
    /\ audioPlayer.endedTask
    /\ LET ap1 == [audioPlayer EXCEPT
                     !.endedTask = FALSE,
                     !.paused = IF EndedPlayback(audioPlayer) THEN TRUE ELSE @]
       IN  /\ audioPlayer' = ap1
           /\ Export("ended", Capture, audioPlayer, Capture, ap1)
           /\ EndedPrepare(Finalize(Capture, ap1), finalizeCalls + 1)
    /\ framePending' = FALSE
    /\ loopCancelled' = TRUE
    /\ playBtn' = FALSE
    /\ pauseBtn' = TRUE
    /\ stopBtn' = TRUE
    /\ UNCHANGED <<isConnected, animationFrameId, uploadedFileName, viseme,
                   staleFrames, metaListeners, connectResult>>

\* Playback advances by one tick; reaching the end queues the element's
\* 'ended' task, which other handlers and frame callbacks may precede.
AdvanceTime ==
    /\ ~audioPlayer.paused
    /\ audioPlayer.ready
    /\ audioPlayer.currentTime < Duration(audioPlayer)
    /\ audioPlayer' =
          [audioPlayer EXCEPT
             !.currentTime = @ + 1,
             !.endedTask = @ \/ (audioPlayer.currentTime + 1 = Duration(audioPlayer))]
    /\ NoExport
    /\ UNCHANGED <<isConnected, animationFrameId, mouthCues, cueFiles, currentViseme,
                   segmentStart, uploadedFileName, audioDuration, viseme,
                   framePending, staleFrames, metaListeners, playBtn, pauseBtn,
                   stopBtn, finalizeCalls, connectResult,
                   loopCancelled, sampled>>

\* The animation frame runs the callback animationFrameId names.
FrameLatest(raw) ==
    /\ framePending
    /\ AnalyzeAudio(Capture, audioPlayer, raw, FALSE, staleFrames, sampled)
    /\ NoExport
    /\ UNCHANGED <<isConnected, uploadedFileName, audioPlayer, metaListeners,
                   playBtn, pauseBtn, stopBtn, finalizeCalls, connectResult,
                   loopCancelled>>

\* The animation frame runs a callback of an older handle.
FrameStale(raw) ==
    /\ staleFrames > 0
    /\ AnalyzeAudio(Capture, audioPlayer, raw, framePending, staleFrames - 1,
                    sampled)
    /\ NoExport
    /\ UNCHANGED <<isConnected, uploadedFileName, audioPlayer, metaListeners,
                   playBtn, pauseBtn, stopBtn, finalizeCalls, connectResult,
                   loopCancelled>>

\* Every step but a Play click.
OtherSteps ==
    \/ \E f \in Files : FileChange(f)
    \/ FileChangeNone
    \/ LoadedMetadata
    \/ PauseClick
    \/ StopClick
    \/ EndedEvent
    \/ AdvanceTime
    \/ \E raw \in AnalyzerOut : FrameLatest(raw)
    \/ \E raw \in AnalyzerOut : FrameStale(raw)

Next ==
    \/ \E raw0, raw1 \in AnalyzerOut : PlayClick(raw0, raw1)
    \/ OtherSteps

Spec == Init /\ [][Next]_vars

\* The element's currentTime does not decrease in a step that finds it
\* playing.
MonotonicWhilePlaying ==
    audioPlayer.paused \/ audioPlayer'.currentTime >= audioPlayer.currentTime

\* The behaviours in which currentTime is non-decreasing while playing.
NextMonotonic ==
    \/ \E raw0, raw1 \in AnalyzerOut :
          PlayClick(raw0, raw1) /\ MonotonicWhilePlaying
    \/ OtherSteps

SpecMonotonic == Init /\ [][NextMonotonic]_vars

\* ----------------------------------------------------------------- claims

\* Every cue the program holds or has just exported.
AllCues ==
    {mouthCues[i] : i \in DOMAIN mouthCues}
    \cup (IF download = NoDoc THEN {}
          ELSE {download.mouthCues[i] : i \in DOMAIN download.mouthCues})

\* C1 - contiguity: in every exported document, whichever handler exported
\* it, each mouth cue starts where the previous one ends.
C1_Contiguity ==
    download # NoDoc =>
        \A i \in 1..(Len(download.mouthCues) - 1) :
            download.mouthCues[i].end = download.mouthCues[i + 1].start

\* An export of at least three cues with two distinct boundaries after 0.
C1_Witness ==
    /\ download # NoDoc
    /\ Len(download.mouthCues) >= 3
    /\ download.mouthCues[1].end > 0
    /\ download.mouthCues[2].end > download.mouthCues[1].end

\* C2 - every segment appended to mouthCues, by a frame sample, by the Stop
\* handler or by finalizeAndDownloadJSON, has start <= end, in every
\* behaviour in which currentTime is non-decreasing while playing
\* (SpecMonotonic), runs paused and resumed included.
C2_StartBeforeEnd == \A cue \in AllCues : cue.start <= cue.end

\* C3 - the first cue of every exported document starts at 0, and whenever
\* mouthCues is empty segmentStart is 0.
C3_FirstStartsAtZero ==
    /\ (download # NoDoc /\ Len(download.mouthCues) > 0
            => download.mouthCues[1].start = 0)
    /\ (mouthCues = <<>> => segmentStart = 0)

\* An export whose first cue has positive length, with the capture state
\* emptied behind it.
C3_Witness ==
    /\ download # NoDoc
    /\ Len(download.mouthCues) >= 2
    /\ download.mouthCues[1].end > 0
    /\ mouthCues = <<>>

\* The cues of an export are the run-length encoding rle of the sampled
\* labels: one cue per entry, with its value, starting at the time of the
\* sample that brought the label and ending where the next entry starts.
IsEncoding(cues, rle) ==
    /\ Len(cues) = Len(rle)
    /\ \A i \in 1..Len(rle) :
          /\ cues[i].value = rle[i].value
          /\ cues[i].start = Round2(rle[i].at)
          /\ (i < Len(rle) => cues[i].end = Round2(rle[i + 1].at))

\* C4 - run-length encoding: for a run played from time 0 whose first sample
\* is at time 0, the exported cue values are the sampled labels with
\* consecutive duplicates collapsed, each boundary the time of the sample at
\* which the label changed, a recurring label giving a new segment.
C4_RunLengthEncoding ==
    (/\ download # NoDoc
     /\ exportInfo.sampled # <<>>
     /\ exportInfo.sampled # Overflow
     /\ exportInfo.sampled[1].at = 0)
        => IsEncoding(download.mouthCues, exportInfo.sampled)

\* C5 - stop-early: a Stop pressed while mouthCues is empty exports exactly
\* one mouth cue, {start: 0, end: 0, value: 'X'}, and the general close logic
\* adds nothing to it.
C5_StopEarly ==
    (download # NoDoc /\ exportInfo.trigger = "stop" /\ exportInfo.prior = <<>>)
        => download.mouthCues = <<Cue(0, 0, "X")>>

\* C6 - finalization guard: on the Stop and the 'ended' path alike, the open
\* segment {round2(segmentStart), round2(endTime), currentViseme} is appended
\* if and only if segmentStart <= endTime, endTime being the time the run is
\* finalized at; an open segment that starts exactly at endTime gives a
\* zero-length closing segment.  (A Stop with nothing captured is C5's case.)
C6_FinalizationGuard ==
    (download # NoDoc
     /\ ~(exportInfo.trigger = "stop" /\ exportInfo.prior = <<>>))
        => download.mouthCues =
              IF exportInfo.openStart <= exportInfo.at
              THEN Append(exportInfo.prior,
                          Cue(Round2(exportInfo.openStart), Round2(exportInfo.at),
                              exportInfo.openValue))
              ELSE exportInfo.prior

\* C7 - no double finalization: every finalizeAndDownloadJSON is followed by
\* resetCapture within the same handler, so no capture state is finalized
\* twice, and after a Stop or 'ended' handler the capture state is the reset
\* state.
C7_NoDoubleFinalization ==
    /\ finalizeCalls = 0
    /\ (download # NoDoc =>
            /\ exportInfo.nth = 1
            /\ mouthCues = <<>>
            /\ currentViseme = "X"
            /\ segmentStart = 0
            /\ audioDuration = 0)

\* A Stop has exported a run of several cues whose open segment began after
\* time 0 and was sampled as 'A'.
C7_Witness ==
    /\ download # NoDoc
    /\ exportInfo.trigger = "stop"
    /\ Len(exportInfo.prior) >= 2
    /\ exportInfo.openStart > 0
    /\ exportInfo.openValue = "A"

\* C8 - export metadata: metadata.soundFile is the name of the most recently
\* selected file, and metadata.duration is the end of the last mouth cue.
C8_ExportMetadata ==
    download # NoDoc =>
        /\ download.metadata.soundFile = audioPlayer.src
        /\ download.metadata.soundFile \in Files
        /\ Len(download.mouthCues) > 0
        /\ download.metadata.duration =
              download.mouthCues[Len(download.mouthCues)].end

\* The 'ended' handler has exported a run of the file selected second, with
\* a positive duration.
C8_Witness ==
    /\ download # NoDoc
    /\ exportInfo.trigger = "ended"
    /\ connectResult = "ok"
    /\ download.metadata.soundFile = "b.wav"
    /\ download.metadata.duration > 0
    /\ Len(download.mouthCues) >= 2

\* C9 - connection failure is safe: once connectAudio has thrown for the
\* selected file, no step starts playback of it (a paused element stays
\* paused) until a later connectAudio succeeds.
C9_ConnectionFailureSafe ==
    [][(connectResult = "threw" /\ audioPlayer.paused) => audioPlayer'.paused]_vars

\* C10 - a missing label is neutral: when the analyzer's last label is
\* missing the open segment's label is 'X', and the value of every segment
\* recorded or exported, like the open segment's label, is a letter of
\* {A..H, X}, never an empty value.
C10_MissingLabelNeutral ==
    /\ (viseme = "" => currentViseme = "X")
    /\ currentViseme \in Visemes
    /\ \A cue \in AllCues : cue.value \in Visemes

\* An export holds an 'X' cue that follows an 'A' cue: the analyzer, which
\* yields 'A' or nothing, yielded nothing at the sample that opened it.
C10_Witness ==
    /\ download # NoDoc
    /\ \E i \in 2..Len(download.mouthCues) :
          /\ download.mouthCues[i].value = "X"
          /\ download.mouthCues[i - 1].value = "A"

\* The analyzeAudio callbacks requested and neither run nor cancelled.
PendingFrames == staleFrames + (IF framePending THEN 1 ELSE 0)

\* C11 - single sampling loop: under every interleaving of file change,
\* 'loadedmetadata', Play, Pause, Stop, 'ended' and animation frames, at most
\* one analyzeAudio callback is pending at any time.
C11_SingleLoop == PendingFrames <= 1

\* A step in which an animation frame runs an analyzeAudio callback.
FrameStep == \E raw \in AnalyzerOut : FrameLatest(raw) \/ FrameStale(raw)

\* C12 - loop cancellation: after a Pause, Stop or 'ended' handler has run,
\* no frame callback changes mouthCues, currentViseme or segmentStart until
\* Play is pressed again; a callback that runs while the audio is paused
\* changes nothing and does not reschedule itself.
C12_LoopCancellation ==
    [][FrameStep =>
          /\ (loopCancelled \/ audioPlayer.paused
                => UNCHANGED <<mouthCues, currentViseme, segmentStart>>)
          /\ (audioPlayer.paused => PendingFrames' = PendingFrames - 1)]_vars

\* C13 - resetCapture is idempotent: from any recorder state, calling it
\* twice in a row yields the same state as calling it once, namely mouthCues
\* empty, currentViseme 'X', segmentStart 0 and audioDuration 0.
C13_ResetIdempotent ==
    /\ ResetCaptureFrom(ResetCaptureFrom(Capture)) = ResetCaptureFrom(Capture)
    /\ ResetCaptureFrom(Capture) =
          [mouthCues |-> <<>>, currentViseme |-> "X", segmentStart |-> 0,
           audioDuration |-> 0]

\* A recorder state in which resetCapture has every field to reset.
C13_Witness ==
    /\ Len(mouthCues) >= 2
    /\ currentViseme = "A"
    /\ segmentStart > 0
    /\ audioDuration > 0

\* r hundredths is the time of t ticks rounded half up: r <= x + 1/2 < r + 1
\* for x = t * 100 / TicksPerSecond.
IsRoundHalfUp(t, r) ==
    /\ 2 * r * TicksPerSecond <= 2 * t * Hundred + TicksPerSecond
    /\ 2 * t * Hundred + TicksPerSecond < 2 * (r + 1) * TicksPerSecond

\* What C14 says of a state: round2 rounds half up and is monotonic, and an
\* export's duration and closing cue are the rounded end time and the rounded
\* start of the open segment.
C14_Emitted ==
    /\ \A t \in 0..MaxTime : IsRoundHalfUp(t, Round2(t))
    /\ \A s, t \in 0..MaxTime : s <= t => Round2(s) <= Round2(t)
    /\ download # NoDoc =>
          LET last == download.mouthCues[Len(download.mouthCues)]
              endTime == EndTime(audioPlayer)
          IN  /\ IsRoundHalfUp(endTime, download.metadata.duration)
              /\ exportInfo.openStart <= endTime =>
                    /\ IsRoundHalfUp(exportInfo.openStart, last.start)
                    /\ IsRoundHalfUp(endTime, last.end)
                    /\ last.start <= last.end

\* What C14 says of a sample: whatever label is sampled in this state, by a
\* frame callback or by the analyzeAudio() call of a Play click, a cue it
\* appends has the rounded segmentStart and the rounded sample time as its
\* start and end.
C14_Appended ==
    \A raw \in AnalyzerOut :
       \A now \in {audioPlayer.currentTime, PlayAudio(audioPlayer).currentTime} :
          LET cues == Sample(Capture, now, raw).mouthCues
          IN  Len(cues) > Len(mouthCues) =>
                 /\ IsRoundHalfUp(segmentStart, cues[Len(cues)].start)
                 /\ IsRoundHalfUp(now, cues[Len(cues)].end)
                 /\ (segmentStart <= now =>
                        cues[Len(cues)].start <= cues[Len(cues)].end)

\* C14 - rounding: every start and end put into mouthCues and the exported
\* metadata.duration is the source time rounded to the nearest hundredth of a
\* second, ties upward, and rounding never puts a segment's start after its
\* end.
C14_Rounding == C14_Emitted /\ C14_Appended

\* An export whose closing cue starts at 0.015 s, a tie, emitted as 0.02.
C14_Witness ==
    /\ download # NoDoc
    /\ exportInfo.openStart = 3
    /\ download.mouthCues[Len(download.mouthCues)].start = 2
    /\ Len(download.mouthCues) >= 2
    /\ download.mouthCues[1].end = 1

\* A frame callback that finds the audio playing and samples the label raw.
FrameSamples(raw) ==
    /\ ~audioPlayer.paused
    /\ FrameLatest(raw) \/ FrameStale(raw)

\* C15 - a frame sample whose label equals currentViseme leaves mouthCues,
\* currentViseme and segmentStart unchanged, in every reachable state, the
\* first-frame case (mouthCues empty, time 0) included.
C15_SameLabelNoChange ==
    \A raw \in AnalyzerOut :
       OrX(raw) = currentViseme
          => Sample(Capture, audioPlayer.currentTime, raw) = Capture

\* The first-frame case with a callback pending: playing at time 0, nothing
\* recorded, and the analyzer's last label is the open segment's.
C15_Witness ==
    /\ ~audioPlayer.paused
    /\ framePending
    /\ mouthCues = <<>>
    /\ audioPlayer.currentTime = 0
    /\ currentViseme = "A"
    /\ viseme = "A"

\* C16 - first sample of a run: a frame sample taken while mouthCues is empty
\* and the playback time is 0 sets currentViseme to the sampled label and
\* segmentStart to 0 and appends no segment, whatever the label and whatever
\* currentViseme was, the label set by the Play handler (lines 193-197)
\* included.
C16_FirstSample ==
    /\ mouthCues = <<>> /\ audioPlayer.currentTime = 0 =>
          \A raw \in AnalyzerOut :
             Sample(Capture, audioPlayer.currentTime, raw) =
                [Capture EXCEPT !.currentViseme = OrX(raw), !.segmentStart = 0]
    /\ \A raw0, raw1 \in AnalyzerOut :
          Sample([ResetCapture EXCEPT !.currentViseme = OrX(raw0),
                                      !.segmentStart = 0], 0, raw1) =
             [ResetCapture EXCEPT !.currentViseme = OrX(raw1)]

\* Two different labels have been sampled at time 0 and no segment has been
\* appended: the open segment carries the later one.
C16_Witness ==
    /\ Len(sampled) >= 2
    /\ sampled[1].at = 0
    /\ sampled[2].at = 0
    /\ sampled[1].value = "A"
    /\ mouthCues = <<>>
    /\ currentViseme = "X"
    /\ audioPlayer.currentTime = 0

\* C17 - Stop closes at the stop time: when Stop is pressed with at least one
\* segment captured and the open segment starting after time 0, the open
\* segment is closed at the playback time at the moment of Stop, so the
\* exported document has no mouth cue ending later than that time.
C17_StopClosesAtStopTime ==
    (/\ download # NoDoc
     /\ exportInfo.trigger = "stop"
     /\ Len(exportInfo.prior) >= 1
     /\ exportInfo.openStart > 0)
        => /\ \A i \in DOMAIN download.mouthCues :
                 download.mouthCues[i].end <= Round2(exportInfo.at)
           /\ download.mouthCues[Len(download.mouthCues)].end =
                 Round2(exportInfo.at)

\* The sequence p is an initial part of the sequence q.
IsPrefix(p, q) == Len(p) <= Len(q) /\ SubSeq(q, 1, Len(p)) = p

\* A step in which the Play handler runs past its isConnected test: only it
\* disables the Play button (line 201).
PlayStep ==
    /\ ~playBtn
    /\ playBtn'
    /\ \E raw0, raw1 \in AnalyzerOut : PlayClick(raw0, raw1)

\* A step in which the Pause handler runs.
PauseStep == ~pauseBtn /\ pauseBtn' /\ PauseClick

\* C18 as stated - pause/resume preserves the recording: Pause, and a Play
\* pressed while the playback time is greater than 0, leave mouthCues,
\* currentViseme and segmentStart unchanged.
C18_ResumeChangesNothing ==
    [][PauseStep \/ (audioPlayer.currentTime > 0 /\ PlayStep)
          => UNCHANGED <<mouthCues, currentViseme, segmentStart>>]_vars

\* C18 - pause/resume preserves the recording: Pause leaves mouthCues,
\* currentViseme and segmentStart unchanged; a Play pressed while the
\* playback time is greater than 0 does not reset them, it applies the one
\* sample of its analyzeAudio() call, which keeps every segment recorded; a
\* Play pressed at time 0 resets the capture; and the segments recorded
\* before any step are an initial part of what is recorded after it or of the
\* document it exports, unless the step is a Play at time 0 or a file change.
C18_PauseResume ==
    [][/\ PauseStep => UNCHANGED <<mouthCues, currentViseme, segmentStart>>
       /\ PlayStep =>
             IF audioPlayer.currentTime > 0
             THEN /\ Capture' = Sample(Capture, audioPlayer'.currentTime, viseme')
                  /\ IsPrefix(mouthCues, mouthCues')
             ELSE /\ mouthCues' = <<>>
                  /\ segmentStart' = 0
       /\ \/ IsPrefix(mouthCues, mouthCues')
          \/ download' # NoDoc /\ IsPrefix(mouthCues, download'.mouthCues)
          \/ audioPlayer.currentTime = 0 /\ PlayStep
          \/ \E f \in Files : FileChange(f)]_vars

\* Pause has run on a recording in progress: the audio is paused after time
\* 0 with Play and Stop enabled, two segments recorded and a third open.
C18_Witness ==
    /\ audioPlayer.paused
    /\ loopCancelled
    /\ ~playBtn
    /\ ~stopBtn
    /\ audioPlayer.currentTime > 0
    /\ Len(mouthCues) >= 2
    /\ segmentStart > 0

\* What C19 says of a state: every cue held was recorded under the file now
\* selected, which is the one the element plays; an export names that file,
\* keeps the cues recorded before it and leaves none behind.
C19_Recorded ==
    /\ Len(cueFiles) = Len(mouthCues)
    /\ \A i \in DOMAIN cueFiles : cueFiles[i] = uploadedFileName
    /\ uploadedFileName = audioPlayer.src
    /\ download # NoDoc =>
          /\ download.metadata.soundFile = uploadedFileName
          /\ IsPrefix(exportInfo.prior, download.mouthCues)
          /\ mouthCues = <<>>

\* A step in which an animation frame runs a callback: it leaves the element
\* and the buttons alone.
CallbackStep ==
    /\ audioPlayer' = audioPlayer
    /\ playBtn' = playBtn
    /\ FrameStep

\* What C19 says of a step: selecting a file resets the capture, pauses the
\* element and cancels the callback animationFrameId names; a callback that
\* runs while the element is paused records nothing; only Play starts the
\* element again.
C19_Selected ==
    /\ (metaListeners' # metaListeners /\ \E f \in Files : FileChange(f)) =>
          /\ mouthCues' = <<>>
          /\ currentViseme' = "X"
          /\ segmentStart' = 0
          /\ audioPlayer'.paused
          /\ ~framePending'
    /\ audioPlayer.paused /\ CallbackStep =>
          UNCHANGED <<mouthCues, currentViseme, segmentStart, sampled>>
    /\ audioPlayer.paused /\ ~audioPlayer'.paused => PlayStep

\* C19 - run isolation: every exported document holds only segments captured
\* since the most recent resetCapture and under the file named in its
\* metadata.soundFile; no segment of a previously selected file or of a
\* previously exported run appears in a later export, and once a new file is
\* selected no frame callback records until Play starts the new file.
C19_RunIsolation == []C19_Recorded /\ [][C19_Selected]_vars

\* A file has been selected, its metadata not yet loaded, while a callback of
\* the previous file's second sampling loop is still pending.
C19_Witness ==
    /\ ~audioPlayer.ready
    /\ audioPlayer.paused
    /\ staleFrames > 0
    /\ connectResult = "none"
    /\ mouthCues = <<>>

====
